---- MODULE Spec2Model ----
(***************************************************************************)
(* A model of mediapipe/model_maker/python/vision/face_stylizer/dataset.py *)
(* : Dataset.from_folder and _preprocess_face_dataset.                     *)
(*                                                                         *)
(* Strings are sequences of one-character strings, so that endswith,       *)
(* dirname, basename and the string order of sorted() are computed and     *)
(* not assumed.  The directory tree under data_root is chosen in Init;     *)
(* one call of from_folder then runs over it, one action per step of the   *)
(* call.  The results of the library calls the code makes (the order of    *)
(* glob and listdir, whether a file decodes, whether a face is found) are  *)
(* nondeterministic choices.                                               *)
(***************************************************************************)
EXTENDS Integers, Sequences, FiniteSets

\* ------------------------------------------------------------------ bounds

\* At most this many entries in one subdirectory.
MaxPerDir == 2
\* At most this many paths matched by the glob.
MaxPaths == 3

\* --------------------------------------------------------------- the inputs

\* The names an entry directly under data_root may have.
TopNames ==
  { <<"a">>, <<"a", "b">>, <<"B">> }

\* The entries a subdirectory may hold: files of the three supported
\* extensions, a file with an upper-case extension, and a nested directory.
ChildEntries ==
  { [name |-> <<"x", ".", "j", "p", "g">>,      isdir |-> FALSE],
    [name |-> <<"y", ".", "j", "p", "e", "g">>, isdir |-> FALSE],
    [name |-> <<"z", ".", "p", "n", "g">>,      isdir |-> FALSE],
    [name |-> <<"w", ".", "J", "P", "G">>,      isdir |-> FALSE],
    [name |-> <<"s">>,                          isdir |-> TRUE] }

\* os.path.abspath(dirname): an absolute path without a trailing slash.
DataRoot == <<"/", "r">>

\* ------------------------------------------------------------------ strings

\* The code point of a character (Python compares str by code point).
Ord(c) ==
  CASE c = "." -> 46 [] c = "/" -> 47
    [] c = "B" -> 66 [] c = "G" -> 71 [] c = "J" -> 74 [] c = "P" -> 80
    [] c = "a" -> 97 [] c = "b" -> 98 [] c = "e" -> 101 [] c = "g" -> 103
    [] c = "j" -> 106 [] c = "n" -> 110 [] c = "p" -> 112 [] c = "r" -> 114
    [] c = "s" -> 115 [] c = "w" -> 119 [] c = "x" -> 120 [] c = "y" -> 121
    [] c = "z" -> 122

\* s < t for Python str: at the first position where they differ the code
\* point decides, and a proper prefix is smaller.
StrLess(s, t) ==
  \E k \in 1..(Len(t)) :
    /\ \A j \in 1..(k - 1) : j <= Len(s) /\ s[j] = t[j]
    /\ k - 1 <= Len(s)
    /\ \/ k = Len(s) + 1
       \/ k <= Len(s) /\ Ord(s[k]) < Ord(t[k])

\* str.endswith(suffix)
EndsWith(s, suffix) ==
  /\ Len(s) >= Len(suffix)
  /\ SubSeq(s, Len(s) - Len(suffix) + 1, Len(s)) = suffix

\* The tuple ('.jpg', '.jpeg', '.png') of line 81.
SupportedSuffixes ==
  << <<".", "j", "p", "g">>, <<".", "j", "p", "e", "g">>, <<".", "p", "n", "g">> >>

\* str.lower() of one character.
Lower(c) ==
  CASE c = "B" -> "b" [] c = "G" -> "g" [] c = "J" -> "j" [] c = "P" -> "p"
    [] OTHER -> c

\* A variant of the check that lower-cases the name first:
\* fname.lower().endswith(...).
IsImageName_IgnoreCase(fname) ==
  \E k \in 1..Len(SupportedSuffixes) :
    EndsWith([j \in 1..Len(fname) |-> Lower(fname[j])], SupportedSuffixes[k])

\* fname.endswith(('.jpg', '.jpeg', '.png'))
IsImageName(fname) ==
  \E k \in 1..Len(SupportedSuffixes) : EndsWith(fname, SupportedSuffixes[k])

\* data_root + '/' + name (the glob pattern of line 76, os.path.join of line 89)
JoinPath(dir, name) == dir \o <<"/">> \o name

\* The position of the last '/' of p, 0 when there is none (str.rfind + 1).
LastSlash(p) ==
  LET S == {k \in 1..Len(p) : p[k] = "/"}
  IN IF S = {} THEN 0 ELSE CHOOSE k \in S : \A j \in S : j <= k

RECURSIVE RStripSlash(_)
RStripSlash(p) ==
  IF Len(p) > 0 /\ p[Len(p)] = "/" THEN RStripSlash(SubSeq(p, 1, Len(p) - 1)) ELSE p

\* os.path.dirname: the part before the last '/', its trailing slashes
\* stripped unless it consists of slashes only.
Dirname(p) ==
  LET head == SubSeq(p, 1, LastSlash(p))
  IN IF \A k \in 1..Len(head) : head[k] = "/" THEN head ELSE RStripSlash(head)

\* os.path.basename: the part after the last '/'.
Basename(p) == SubSeq(p, LastSlash(p) + 1, Len(p))

\* ------------------------------------------------------------- collections

\* The orders in which a library call may list the members of S.
Orderings(S) ==
  {s \in [1..Cardinality(S) -> S] : \A x \in S : \E k \in 1..Cardinality(S) : s[k] = x}

\* x put into the ascending list s, after the elements that are not greater.
RECURSIVE Insert(_, _)
Insert(x, s) ==
  IF s = <<>> THEN <<x>>
  ELSE IF StrLess(x, Head(s)) THEN <<x>> \o s
  ELSE <<Head(s)>> \o Insert(x, Tail(s))

\* A variant without the sort: the names as listdir gave them.
Sorted_Unsorted(names) == names

\* sorted(names): the names in ascending str order.
RECURSIVE Sorted(_)
Sorted(names) ==
  IF names = <<>> THEN <<>>
  ELSE Insert(names[Len(names)], Sorted(SubSeq(names, 1, Len(names) - 1)))

\* A variant that counts from one: enumerate(label_names, 1).
IndexByLabel_FromOne(names) ==
  [n \in {names[k] : k \in 1..Len(names)} |->
     CHOOSE k \in 1..Len(names) : names[k] = n /\ \A j \in (k + 1)..Len(names) : names[j] # n]

\* dict((name, index) for index, name in enumerate(label_names))
IndexByLabel(names) ==
  [n \in {names[k] : k \in 1..Len(names)} |->
     (CHOOSE k \in 1..Len(names) : names[k] = n /\ \A j \in (k + 1)..Len(names) : names[j] # n) - 1]

\* tf.data.Dataset.zip((a, b)): the pairs, as many as the shorter one has.
Zip(a, b) ==
  [k \in 1..(IF Len(a) <= Len(b) THEN Len(a) ELSE Len(b)) |-> <<a[k], b[k]>>]

\* ------------------------------------------------------------ library calls

\* image_module.Image.create_from_file(path)
ImageOf(path) == [file |-> path]
\* aligner.align(image), when a face is found
AlignedOf(image) == [aligned |-> image]
\* tf.convert_to_tensor(aligned_image.numpy_view())
TensorOf(aligned) == [tensor |-> aligned]

\* ---------------------------------------------------------------- the state

VARIABLES
  fs,                  \* the entries directly under data_root
  pc,                  \* where the call of from_folder is
  all_image_paths, all_image_size,
  aligner,             \* <<>> before the aligner is created
  idx,                 \* the position of the loop of _preprocess_face_dataset
  image, aligned_image,\* <<>> is None
  preprocessed_images, image_data,
  label_names, all_label_size, index_by_label, all_image_labels,
  result,              \* <<>> until from_folder returns its Dataset
  error,               \* the exception raised, if any
  log                  \* the library calls made so far, in order

vars ==
  << fs, pc, all_image_paths, all_image_size, aligner, idx, image, aligned_image,
     preprocessed_images, image_data, label_names, all_label_size, index_by_label,
     all_image_labels, result, error, log >>

NoError == [type |-> "", msg |-> ""]
InvalidDirectoryError == [type |-> "ValueError", msg |-> "Invalid input data directory"]
NoImagesError == [type |-> "ValueError", msg |-> "No images found under given directory"]
\* create_from_file fails on what is no image file
ReadError == [type |-> "RuntimeError", msg |-> "Image decoding failed"]
\* align returned None, and line 43 calls numpy_view on it
NoFaceError == [type |-> "AttributeError", msg |-> "'NoneType' object has no attribute 'numpy_view'"]
LabelKeyError == [type |-> "KeyError", msg |-> "index_by_label"]

\* The subdirectories of data_root.
Dirs == {e \in fs : e.isdir}

\* What the pattern data_root/*/* matches: every entry of every subdirectory.
GlobMatches ==
  {JoinPath(JoinPath(DataRoot, d.name), c.name) : <<d, c>> \in
     {dc \in Dirs \X ChildEntries : dc[2] \in dc[1].children}}

\* os.listdir(data_root)
Listdir == {e.name : e \in fs}

\* os.path.isdir(path)
IsDir(path) ==
  \/ \E e \in Dirs : path = JoinPath(DataRoot, e.name)
  \/ \E d \in Dirs : \E c \in d.children :
       c.isdir /\ path = JoinPath(JoinPath(DataRoot, d.name), c.name)

\* What a name directly under data_root may be: a plain file, or a
\* subdirectory with some entries.
TopChoices ==
  [isdir : {FALSE}, children : {{}}]
    \cup [isdir : {TRUE},
          children : {S \in SUBSET ChildEntries : Cardinality(S) <= MaxPerDir}]

\* The number of entries in the subdirectories of f, a choice for each name.
RECURSIVE CountPaths(_, _)
CountPaths(f, names) ==
  IF names = {} THEN 0
  ELSE LET n == CHOOSE x \in names : TRUE
       IN Cardinality(f[n].children) + CountPaths(f, names \ {n})

\* The directory tree in which the names of DOMAIN f are what f says.
TreeOf(f) ==
  {[name |-> n, isdir |-> f[n].isdir, children |-> f[n].children] : n \in DOMAIN f}

Init ==
  /\ \E N \in SUBSET TopNames :
       \E f \in [N -> TopChoices] :
         /\ CountPaths(f, N) <= MaxPaths
         /\ fs = TreeOf(f)
  /\ pc = "start"
  /\ all_image_paths = <<>>
  /\ all_image_size = 0
  /\ aligner = <<>>
  /\ idx = 0
  /\ image = <<>>
  /\ aligned_image = <<>>
  /\ preprocessed_images = <<>>
  /\ image_data = <<>>
  /\ label_names = <<>>
  /\ all_label_size = 0
  /\ index_by_label = <<>>
  /\ all_image_labels = <<>>
  /\ result = <<>>
  /\ error = NoError
  /\ log = <<>>

\* ------------------------------------------------- Dataset.from_folder

\* A variant that returns an empty Dataset where line 79 raises.
Glob_EmptyDataset ==
  /\ pc = "start"
  /\ \E paths \in Orderings(GlobMatches) :
       /\ all_image_paths' = paths
       /\ all_image_size' = Len(paths)
       /\ IF Len(paths) = 0
            THEN /\ pc' = "returned"
                 /\ result' = << [dataset |-> <<>>, size |-> 0, label_names |-> <<>>] >>
            ELSE /\ pc' = "globbed"
                 /\ result' = result
  /\ UNCHANGED << fs, aligner, idx, image, aligned_image, preprocessed_images,
                  image_data, label_names, all_label_size, index_by_label,
                  all_image_labels, error, log >>

\* Lines 72-79: the glob, and the check that it matched something.
Glob ==
  /\ pc = "start"
  /\ \E paths \in Orderings(GlobMatches) :
       /\ all_image_paths' = paths
       /\ all_image_size' = Len(paths)
       /\ IF Len(paths) = 0
            THEN pc' = "raised" /\ error' = InvalidDirectoryError
            ELSE pc' = "globbed" /\ error' = error
  /\ UNCHANGED << fs, aligner, idx, image, aligned_image, preprocessed_images,
                  image_data, label_names, all_label_size, index_by_label,
                  all_image_labels, result, log >>

\* Lines 80-83: the check that some path has a supported extension.
CheckExtensions ==
  /\ pc = "globbed"
  /\ IF ~ \E k \in 1..Len(all_image_paths) : IsImageName(all_image_paths[k])
       THEN pc' = "raised" /\ error' = NoImagesError
       ELSE pc' = "preprocess" /\ error' = error
  /\ UNCHANGED << fs, all_image_paths, all_image_size, aligner, idx, image,
                  aligned_image, preprocessed_images, image_data, label_names,
                  all_label_size, index_by_label, all_image_labels, result, log >>

\* ------------------------------------------- _preprocess_face_dataset

\* Lines 33-38: the aligner is created and the list of images starts empty.
CreateAligner ==
  /\ pc = "preprocess"
  /\ aligner' = <<"FaceAligner">>
  /\ preprocessed_images' = <<>>
  /\ idx' = 1
  /\ log' = Append(log, <<"create_aligner", 0>>)
  /\ pc' = "loop"
  /\ UNCHANGED << fs, all_image_paths, all_image_size, image, aligned_image,
                  image_data, label_names, all_label_size, index_by_label,
                  all_image_labels, result, error >>

\* A variant that creates the aligner inside the loop, once for each path.
ReadImage_NewAligner ==
  /\ pc = "loop"
  /\ idx <= Len(all_image_paths)
  /\ aligner' = <<"FaceAligner">>
  /\ log' = log \o << <<"create_aligner", 0>>, <<"read", idx>> >>
  /\ \E decodes \in BOOLEAN :
       IF decodes /\ ~ IsDir(all_image_paths[idx])
         THEN /\ image' = <<ImageOf(all_image_paths[idx])>>
              /\ pc' = "align"
              /\ error' = error
         ELSE /\ image' = image
              /\ pc' = "raised"
              /\ error' = ReadError
  /\ UNCHANGED << fs, all_image_paths, all_image_size, idx,
                  aligned_image, preprocessed_images, image_data, label_names,
                  all_label_size, index_by_label, all_image_labels, result >>

\* Lines 39-41: the next path is read; a directory, or a file that does not
\* decode, raises.
ReadImage ==
  /\ pc = "loop"
  /\ idx <= Len(all_image_paths)
  /\ log' = Append(log, <<"read", idx>>)
  /\ \E decodes \in BOOLEAN :
       IF decodes /\ ~ IsDir(all_image_paths[idx])
         THEN /\ image' = <<ImageOf(all_image_paths[idx])>>
              /\ pc' = "align"
              /\ error' = error
         ELSE /\ image' = image
              /\ pc' = "raised"
              /\ error' = ReadError
  /\ UNCHANGED << fs, all_image_paths, all_image_size, aligner, idx,
                  aligned_image, preprocessed_images, image_data, label_names,
                  all_label_size, index_by_label, all_image_labels, result >>

\* Line 42: the image is aligned; align returns None when no face is found.
AlignImage ==
  /\ pc = "align"
  /\ log' = Append(log, <<"align", idx>>)
  /\ \E face \in BOOLEAN :
       aligned_image' = IF face THEN <<AlignedOf(image[1])>> ELSE <<>>
  /\ pc' = "append"
  /\ UNCHANGED << fs, all_image_paths, all_image_size, aligner, idx, image,
                  preprocessed_images, image_data, label_names, all_label_size,
                  index_by_label, all_image_labels, result, error >>

\* A variant that puts each tensor at the front: insert(0, ...) for append.
AppendTensor_Prepend ==
  /\ pc = "append"
  /\ IF aligned_image = <<>>
       THEN /\ pc' = "raised"
            /\ error' = NoFaceError
            /\ UNCHANGED << preprocessed_images, idx >>
       ELSE /\ preprocessed_images' =
                 <<TensorOf(aligned_image[1])>> \o preprocessed_images
            /\ idx' = idx + 1
            /\ pc' = "loop"
            /\ error' = error
  /\ UNCHANGED << fs, all_image_paths, all_image_size, aligner, image,
                  aligned_image, image_data, label_names, all_label_size,
                  index_by_label, all_image_labels, result, log >>

\* Lines 43-44: the aligned image becomes a tensor and is appended.
AppendTensor ==
  /\ pc = "append"
  /\ IF aligned_image = <<>>
       THEN /\ pc' = "raised"
            /\ error' = NoFaceError
            /\ UNCHANGED << preprocessed_images, idx >>
       ELSE /\ preprocessed_images' =
                 Append(preprocessed_images, TensorOf(aligned_image[1]))
            /\ idx' = idx + 1
            /\ pc' = "loop"
            /\ error' = error
  /\ UNCHANGED << fs, all_image_paths, all_image_size, aligner, image,
                  aligned_image, image_data, label_names, all_label_size,
                  index_by_label, all_image_labels, result, log >>

\* Lines 46 and 85: the loop is over and the images are returned.
PreprocessReturn ==
  /\ pc = "loop"
  /\ idx > Len(all_image_paths)
  /\ image_data' = preprocessed_images
  /\ pc' = "list_labels"
  /\ UNCHANGED << fs, all_image_paths, all_image_size, aligner, idx, image,
                  aligned_image, preprocessed_images, label_names, all_label_size,
                  index_by_label, all_image_labels, result, error, log >>

\* ------------------------------------- Dataset.from_folder, continued

\* The generator of lines 87-89 over one listing of data_root.
DirectoryNames(listing) ==
  LET IsSubdirectory(name) == IsDir(JoinPath(DataRoot, name))
  IN SelectSeq(listing, IsSubdirectory)

\* Lines 86-94: the label names and the index of each.
ListLabels ==
  /\ pc = "list_labels"
  /\ \E listing \in Orderings(Listdir) :
       /\ label_names' = Sorted(DirectoryNames(listing))
       /\ all_label_size' = Len(label_names')
       /\ index_by_label' = IndexByLabel(label_names')
  /\ log' = Append(log, <<"labels", 0>>)
  /\ pc' = "map_labels"
  /\ UNCHANGED << fs, all_image_paths, all_image_size, aligner, idx, image,
                  aligned_image, preprocessed_images, image_data,
                  all_image_labels, result, error >>

\* Lines 96-99: the label of each path, from the name of its directory.
MapLabels ==
  /\ pc = "map_labels"
  /\ IF \A k \in 1..Len(all_image_paths) :
          Basename(Dirname(all_image_paths[k])) \in DOMAIN index_by_label
       THEN /\ all_image_labels' =
                 [k \in 1..Len(all_image_paths) |->
                    index_by_label[Basename(Dirname(all_image_paths[k]))]]
            /\ pc' = "build"
            /\ error' = error
       ELSE /\ all_image_labels' = all_image_labels
            /\ pc' = "raised"
            /\ error' = LabelKeyError
  /\ UNCHANGED << fs, all_image_paths, all_image_size, aligner, idx, image,
                  aligned_image, preprocessed_images, image_data, label_names,
                  all_label_size, index_by_label, result, log >>

\* Lines 101-119: the two datasets are zipped and the Dataset is returned.
BuildDataset ==
  /\ pc = "build"
  /\ result' = << [dataset |-> Zip(image_data, all_image_labels),
                   size |-> all_image_size,
                   label_names |-> label_names] >>
  /\ log' = Append(log, <<"dataset", 0>>)
  /\ pc' = "returned"
  /\ UNCHANGED << fs, all_image_paths, all_image_size, aligner, idx, image,
                  aligned_image, preprocessed_images, image_data, label_names,
                  all_label_size, index_by_label, all_image_labels, error >>

Next ==
  \/ Glob
  \/ CheckExtensions
  \/ CreateAligner
  \/ ReadImage
  \/ AlignImage
  \/ AppendTensor
  \/ PreprocessReturn
  \/ ListLabels
  \/ MapLabels
  \/ BuildDataset

Spec == Init /\ [][Next]_vars

\* ------------------------------------------------------------ properties

\* What the properties say about the directory tree is stated from the tree
\* itself, not through the operators the actions use.

\* The name has one of the three supported extensions, in lower case.
SupportedExtension(name) ==
  \E k \in 1..Len(name) :
    SubSeq(name, k, Len(name)) \in
      { <<".", "j", "p", "g">>, <<".", "j", "p", "e", "g">>, <<".", "p", "n", "g">> }

\* The <<subdirectory, entry>> pairs of the tree: what data_root/*/* names.
TreeEntries == {dc \in Dirs \X ChildEntries : dc[2] \in dc[1].children}

\* The path of an entry of a subdirectory.
PathOfEntry(dc) == DataRoot \o <<"/">> \o dc[1].name \o <<"/">> \o dc[2].name

\* The name of the subdirectory that directly contains the path.
ParentName(path) ==
  (CHOOSE dc \in TreeEntries : PathOfEntry(dc) = path)[1].name

\* The positions of the log at which the library call `what` was made.
Calls(what) == {k \in 1..Len(log) : log[k][1] = what}

\* C1: when no subdirectory of data_root has an entry (the glob matches
\* nothing), the call ends by raising ValueError and no Dataset is returned.
C1_EmptyGlobRaises ==
  (TreeEntries = {} /\ pc # "start") =>
    /\ pc = "raised"
    /\ error.type = "ValueError"
    /\ result = <<>>

\* C1's case: an empty subdirectory beside a top-level file, and the call has
\* raised.
C1_Witness ==
  /\ pc = "raised"
  /\ \E e \in fs : e.isdir /\ e.children = {}
  /\ \E e \in fs : ~ e.isdir
  /\ TreeEntries = {}

\* C2: a returned dataset has one (image, label) pair for each path the glob
\* matched, in the glob's order: size, the number of aligned images, the
\* number of labels and the number of pairs are the number of matched paths,
\* and pair i is the aligned image of path i with the label of path i.
C2_OnePairPerPath ==
  pc = "returned" =>
    LET ds == result[1].dataset
        n == Cardinality(TreeEntries)
    IN /\ {all_image_paths[k] : k \in 1..Len(all_image_paths)}
            = {PathOfEntry(dc) : dc \in TreeEntries}
       /\ Len(all_image_paths) = n
       /\ result[1].size = n
       /\ Len(image_data) = n
       /\ Len(all_image_labels) = n
       /\ Len(ds) = n
       /\ \A k \in 1..n :
            /\ ds[k][1] = [tensor |-> [aligned |-> [file |-> all_image_paths[k]]]]
            /\ ds[k][2] \in 0..(Len(result[1].label_names) - 1)
            /\ result[1].label_names[ds[k][2] + 1] = ParentName(all_image_paths[k])

\* C2's case: a dataset of three paths is returned.
C2_Witness ==
  /\ pc = "returned"
  /\ Len(result[1].dataset) = 3
  /\ \E j, k \in 1..3 : ParentName(all_image_paths[j]) # ParentName(all_image_paths[k])

\* C3: in a returned dataset the label of an image is the zero-based position
\* in label_names of the name of its subdirectory, and two images have the
\* same label exactly when they are in the same subdirectory.
C3_LabelIsDirectoryIndex ==
  pc = "returned" =>
    LET ds == result[1].dataset
        names == result[1].label_names
    IN /\ Len(ds) = Len(all_image_paths)
       /\ \A k \in 1..Len(ds) :
            /\ ds[k][2] \in 0..(Len(names) - 1)
            /\ names[ds[k][2] + 1] = ParentName(all_image_paths[k])
       /\ \A j, k \in 1..Len(ds) :
            (ds[j][2] = ds[k][2])
              <=> (ParentName(all_image_paths[j]) = ParentName(all_image_paths[k]))

\* C3's case: a returned dataset with two images of one subdirectory and one
\* of another.
C3_Witness ==
  /\ pc = "returned"
  /\ \E j, k, m \in 1..Len(result[1].dataset) :
       /\ j # k
       /\ result[1].dataset[j][2] = result[1].dataset[k][2]
       /\ result[1].dataset[j][2] # result[1].dataset[m][2]

C5_NoSupportedImageRaises ==
  ( /\ TreeEntries # {}
    /\ \A dc \in TreeEntries : ~ SupportedExtension(dc[2].name)
    /\ pc \notin {"start", "globbed"} ) =>
    /\ pc = "raised"
    /\ error = [type |-> "ValueError", msg |-> "No images found under given directory"]
    /\ result = <<>>

\* C5's case: the only matched file has an upper-case extension, and the call
\* has raised.
C5_Witness ==
  /\ pc = "raised"
  /\ \E dc \in TreeEntries : dc[2].name = <<"w", ".", "J", "P", "G">>
  /\ \A dc \in TreeEntries : ~ SupportedExtension(dc[2].name)

\* C6: label_names of a returned dataset holds exactly the names of the
\* subdirectories of data_root, empty ones included and plain files excluded,
\* in strictly ascending str order.
C6_LabelNamesSortedDirectories ==
  pc = "returned" =>
    LET names == result[1].label_names
    IN /\ {names[k] : k \in 1..Len(names)} = {e.name : e \in {x \in fs : x.isdir}}
       /\ \A k \in 1..(Len(names) - 1) : StrLess(names[k], names[k + 1])
       /\ \A j, k \in 1..Len(names) : j # k => names[j] # names[k]

\* C6's case: a dataset is returned for a tree with a top-level plain file,
\* an empty subdirectory and a subdirectory with an image.
C6_Witness ==
  /\ pc = "returned"
  /\ \E e \in fs : ~ e.isdir
  /\ \E e \in fs : e.isdir /\ e.children = {}
  /\ Len(result[1].label_names) = 2

\* C7: the aligner is created once, before the first read; the paths are
\* read and aligned one at a time in the order of the list, each once, path k
\* aligned before path k + 1 is read; the labels and the dataset are built
\* after the last path was aligned.
C7_SequentialLoop ==
  LET n == Len(all_image_paths)
      Nth(what, k) == Cardinality({m \in Calls(what) : m <= k})
  IN /\ Cardinality(Calls("create_aligner")) <= 1
     /\ \A k \in Calls("read") :
          /\ \E c \in Calls("create_aligner") : c < k
          /\ log[k][2] = Nth("read", k)
          /\ log[k][2] <= n
          /\ Nth("align", k) = log[k][2] - 1
     /\ \A k \in Calls("align") :
          /\ log[k][2] = Nth("align", k)
          /\ Nth("read", k) = log[k][2]
     /\ \A k \in Calls("labels") \cup Calls("dataset") :
          /\ Nth("align", k) = n
          /\ \A m \in Calls("read") \cup Calls("align") : m < k
     /\ pc \in {"map_labels", "build", "returned"} => Calls("labels") # {}
     /\ pc = "returned" => Calls("dataset") # {}

\* C7's case: a call over three paths has returned.
C7_Witness ==
  /\ pc = "returned"
  /\ Cardinality(Calls("align")) = 3

====
